---- MODULE Spec2Model ----
(***************************************************************************)
(* Model of the WhatsApp bridge's connection lifecycle (src/index.js):     *)
(* the four globals connectionStatus, qrBase64, lastError and socket, the  *)
(* session folder, startBridge with its suspension at the awaits, the      *)
(* connection.update handler with its suspension at QRCode.toDataURL, the  *)
(* 10 s "no QR" timer, the restart timers and POST /api/send-message.      *)
(*                                                                         *)
(* Strings are sequences of tokens; a decimal digit is always a token of   *)
(* its own, so that String.includes('405') is computed on the digits.      *)
(* null is the empty sequence (the code only tests it for truthiness).     *)
(*                                                                         *)
(* Time is counted in milliseconds and advances in steps of the shortest   *)
(* timer delay of the program; every delay is a multiple of it.            *)
(*                                                                         *)
(* A socket delivers connection.update events while it is open for events: *)
(* from its creation until it has emitted connection 'close', which it     *)
(* does at most once; it emits 'open' at most once and a QR only before.   *)
(***************************************************************************)
EXTENDS Integers, Sequences, FiniteSets, TLC

VARIABLES connectionStatus, qrBase64, lastError, socket,
          folderExists, files, sessions, restartTimers, pendingQr,
          loading, listening, requests, lastClose, lastEvent

vars == <<connectionStatus, qrBase64, lastError, socket, folderExists, files,
          sessions, restartTimers, pendingQr, loading, listening, requests,
          lastClose, lastEvent>>

----------------------------------------------------------------------------
(* Bounds of the model *)

MaxSessions == 3
MaxRequests == 1

(* Program constants *)

QR_TIMEOUT_MS == 10000
RETRY_MS == 5000
RETRY_405_MS == 60000
loggedOut == 401
NoCode == 0
RATE_LIMITED == 405

(* Raw close codes drawn by the environment; NoCode is an absent code *)
RawCodes == {NoCode, loggedOut, RATE_LIMITED, 500, 1405, 4050}

QrTokens == {"qr-1"}

----------------------------------------------------------------------------
(* Strings *)

null == <<>>

DigitChars == <<"0", "1", "2", "3", "4", "5", "6", "7", "8", "9">>

RECURSIVE Decimal(_)
Decimal(n) ==
    IF n < 10 THEN <<DigitChars[n + 1]>>
    ELSE Decimal(n \div 10) \o <<DigitChars[(n % 10) + 1]>>

(* `${reason}` *)
Interpolate(reason) == IF reason = NoCode THEN <<"undefined">> ELSE Decimal(reason)

Includes(text, pat) ==
    \E i \in 1..(Len(text) - Len(pat) + 1) :
        SubSeq(text, i, i + Len(pat) - 1) = pat

STATUS_DISCONNECTED == <<"Disconnected">>
STATUS_STARTING == <<"Starting WhatsApp Library...">>
STATUS_READY == <<"READY TO SCAN">>
STATUS_CONNECTED == <<"CONNECTED">>
STATUS_STARTUP_ERROR == <<"Startup Error">>
StoppedStatus(reason) == <<"Stopped (Reason: ">> \o Interpolate(reason) \o <<")">>

ClosedError(reason) == <<"Connection closed with code: ">> \o Interpolate(reason)
QR_TIMEOUT_ERROR == <<"QR code timeout - possible network/firewall issue">>
FS_ERROR == <<"EACCES: permission denied, mkdir 'wa_session'">>
OPEN_ERROR == <<"Cannot find package '@whiskeysockets/baileys'">>

ToDataURL(qr) == <<"data:image/png;base64,", qr>>

----------------------------------------------------------------------------
(* State after the module is loaded, before app.listen's callback runs *)

(* lastEvent records the step taken last: its kind, the socket it concerns, *)
(* the close code or HTTP status it carries, the restart delays it passed   *)
(* to setTimeout and the number of socket.sendMessage calls of the request  *)
(* or, for a socket just created, whether it was given stored credentials.  *)
(* lastClose is the code of the last close processed since a socket was     *)
(* last created, NoClose when there is none.                                *)
Event(type, sid, code, scheduled, n) ==
    [type |-> type, sid |-> sid, code |-> code, scheduled |-> scheduled,
     n |-> n]

NoEvent == Event("none", 0, NoCode, <<>>, 0)

NoClose == 0 - 1

Init ==
    /\ connectionStatus = STATUS_DISCONNECTED
    /\ qrBase64 = null
    /\ lastError = null
    /\ socket = 0
    /\ \E f \in {<<FALSE, {}>>, <<TRUE, {}>>, <<TRUE, {"creds.json"}>>} :
          /\ folderExists = f[1]
          /\ files = f[2]
    /\ sessions = <<>>
    /\ restartTimers = <<>>
    /\ pendingQr = {}
    /\ loading = 0
    /\ listening = FALSE
    /\ requests = <<>>
    /\ lastClose = NoClose
    /\ lastEvent = NoEvent

----------------------------------------------------------------------------
(* startBridge *)

TEXT_405 == <<"4", "0", "5">>

(* line 71 *)
ShouldClearSession(err, fs) == err # null /\ Includes(err, TEXT_405) /\ fs # {}

CatchStartup_KeepsStatus(status, msg) ==
    [connectionStatus |-> status, lastError |-> msg]

(* The catch of lines 167-172; status is the status the try block left *)
CatchStartup(status, msg) ==
    [connectionStatus |-> STATUS_STARTUP_ERROR, lastError |-> msg]

(* Lines 58-78, up to the first await.  fsOk = FALSE: mkdirSync or          *)
(* readdirSync throws and the catch of lines 167-172 runs in the same step, *)
(* after line 58 has set the status (n = 1 in the event).                   *)
StartBridgeEnter(fsOk) ==
    IF fsOk
    THEN /\ connectionStatus' = STATUS_STARTING
         /\ folderExists' = TRUE
         /\ files' = IF folderExists /\ ShouldClearSession(lastError, files)
                     THEN {} ELSE files
         /\ loading' = loading + 1
         /\ lastEvent' = Event("start", 0, NoCode, <<>>, 0)
         /\ UNCHANGED lastError
    ELSE /\ connectionStatus' = CatchStartup(STATUS_STARTING, FS_ERROR).connectionStatus
         /\ lastError' = CatchStartup(STATUS_STARTING, FS_ERROR).lastError
         /\ lastEvent' = Event("startfail", 0, NoCode, <<>>, 1)
         /\ UNCHANGED <<folderExists, files, loading>>

(* app.listen's callback, line 397 *)
Listen ==
    /\ ~listening
    /\ listening' = TRUE
    /\ \E fsOk \in BOOLEAN : StartBridgeEnter(fsOk)
    /\ UNCHANGED <<qrBase64, socket, sessions, restartTimers, pendingQr, requests, lastClose>>

RemoveAt(seq, i) == SubSeq(seq, 1, i - 1) \o SubSeq(seq, i + 1, Len(seq))

(* A timer set by setTimeout(startBridge, delay) fires, line 155 *)
RestartFire(i) ==
    /\ restartTimers[i] = 0
    /\ Len(sessions) + loading < MaxSessions
    /\ restartTimers' = RemoveAt(restartTimers, i)
    /\ \E fsOk \in BOOLEAN : StartBridgeEnter(fsOk)
    /\ UNCHANGED <<qrBase64, socket, sessions, pendingQr, listening, requests, lastClose>>

(* useMultiFileAuthState reads the folder, line 97 *)
LoadAuth(fs) == IF "creds.json" \in fs THEN 1 ELSE 0

(* makeWASocket and the timer of lines 113-122.  subscribed: the socket     *)
(* delivers events to the handler; opened: it has emitted 'open'; early:   *)
(* it has emitted a QR or 'open' while its 10 s timer was pending.          *)
NewSession ==
    [subscribed |-> TRUE, opened |-> FALSE, early |-> FALSE,
     qrTimeout |-> "pending", remaining |-> QR_TIMEOUT_MS]

(* startBridge resumes after its awaits: lines 97-126, or the catch when    *)
(* the import, useMultiFileAuthState or makeWASocket throws.                *)
StartBridgeResume(ok) ==
    /\ loading > 0
    /\ loading' = loading - 1
    /\ IF ok
       THEN /\ sessions' = Append(sessions, NewSession)
            /\ socket' = Len(sessions) + 1
            /\ lastEvent' = Event("opened", Len(sessions) + 1, lastClose, <<>>,
                                  LoadAuth(files))
            /\ lastClose' = NoClose
            /\ UNCHANGED <<connectionStatus, lastError>>
       ELSE /\ lastError' = CatchStartup(connectionStatus, OPEN_ERROR).lastError
            /\ connectionStatus' =
                   CatchStartup(connectionStatus, OPEN_ERROR).connectionStatus
            /\ lastEvent' = Event("startfail", 0, NoCode, <<>>, 0)
            /\ UNCHANGED <<sessions, socket, lastClose>>
    /\ UNCHANGED <<qrBase64, folderExists, files, restartTimers, pendingQr,
                   listening, requests>>

----------------------------------------------------------------------------
(* The 10 s timer of lines 113-122 *)

(* The globals a callback writes; scheduled collects its setTimeout calls *)
Globals ==
    [connectionStatus |-> connectionStatus, qrBase64 |-> qrBase64,
     lastError |-> lastError, scheduled |-> <<>>]

Commit(g) ==
    /\ connectionStatus' = g.connectionStatus
    /\ qrBase64' = g.qrBase64
    /\ lastError' = g.lastError
    /\ restartTimers' = restartTimers \o g.scheduled

QrTimeoutFlags_IgnoresStatus(qr, status) == qr = null

(* line 114 *)
QrTimeoutFlags(qr, status) == qr = null /\ status = STATUS_STARTING

(* What the socket had emitted when its timer fires: 0 nothing but          *)
(* 'connecting', 1 a close only, 2 a QR or 'open'                           *)
Quietness(sess) == IF sess.early THEN 2 ELSE IF sess.subscribed THEN 0 ELSE 1

OnQrTimeout_GivesUp(g) ==
    IF QrTimeoutFlags(g.qrBase64, g.connectionStatus)
    THEN [g EXCEPT !.lastError = QR_TIMEOUT_ERROR,
                   !.connectionStatus = STATUS_STARTUP_ERROR]
    ELSE g

(* lines 114-121 *)
OnQrTimeout(g) ==
    IF QrTimeoutFlags(g.qrBase64, g.connectionStatus)
    THEN [g EXCEPT !.lastError = QR_TIMEOUT_ERROR]
    ELSE g

QrTimeoutFire(s) ==
    /\ sessions[s].qrTimeout = "pending"
    /\ sessions[s].remaining = 0
    /\ sessions' = [sessions EXCEPT ![s].qrTimeout = "done", ![s].early = FALSE]
    /\ Commit(OnQrTimeout(Globals))
    /\ lastEvent' = Event("qrTimeout", s, NoCode, OnQrTimeout(Globals).scheduled,
                          Quietness(sessions[s]))
    /\ UNCHANGED <<socket, folderExists, files, pendingQr, loading, listening,
                   requests, lastClose>>

----------------------------------------------------------------------------
(* The connection.update handler, lines 126-165 *)

OnQr_KeepsError(g, qr) ==
    [g EXCEPT !.qrBase64 = ToDataURL(qr),
              !.connectionStatus = STATUS_READY]

(* lines 133-135, once QRCode.toDataURL has resolved *)
OnQr(g, qr) ==
    [g EXCEPT !.qrBase64 = ToDataURL(qr),
              !.connectionStatus = STATUS_READY,
              !.lastError = null]

ShouldReconnect_Always(reason) == TRUE

ShouldReconnect_OnlyWithCode(reason) == reason # loggedOut /\ reason # NoCode

(* line 152 *)
ShouldReconnect(reason) == reason # loggedOut

ReconnectDelay_Flat(reason) == RETRY_MS

ReconnectDelay_From405(reason) ==
    IF reason >= RATE_LIMITED THEN RETRY_405_MS ELSE RETRY_MS

(* line 153 *)
ReconnectDelay(reason) == IF reason = RATE_LIMITED THEN RETRY_405_MS ELSE RETRY_MS

OnClose_TwoTimersOn405(g, reason) ==
    [g EXCEPT !.connectionStatus = StoppedStatus(reason),
              !.lastError = ClosedError(reason),
              !.scheduled = (IF reason = RATE_LIMITED
                             THEN Append(@, RETRY_405_MS) ELSE @)
                            \o (IF ShouldReconnect(reason)
                                THEN <<ReconnectDelay(reason)>> ELSE <<>>)]

(* lines 139-158 *)
OnClose(g, reason) ==
    [g EXCEPT !.connectionStatus = StoppedStatus(reason),
              !.lastError = ClosedError(reason),
              !.scheduled = IF ShouldReconnect(reason)
                            THEN Append(@, ReconnectDelay(reason)) ELSE @]

OnOpen_KeepsQr(g) ==
    [g EXCEPT !.connectionStatus = STATUS_CONNECTED,
              !.lastError = null]

OnOpen_KeepsError(g) ==
    [g EXCEPT !.connectionStatus = STATUS_CONNECTED,
              !.qrBase64 = null]

(* lines 159-164 *)
OnOpen(g) ==
    [g EXCEPT !.connectionStatus = STATUS_CONNECTED,
              !.qrBase64 = null,
              !.lastError = null]

(* lines 139-164 *)
OnConnection(g, u) ==
    IF u.connection = "close" THEN OnClose(g, u.statusCode)
    ELSE IF u.connection = "open" THEN OnOpen(g)
    ELSE g

Closes(u) == IF u.connection = "close" THEN u.statusCode ELSE lastClose

Update(qr, connection, statusCode) ==
    [qr |-> qr, connection |-> connection, statusCode |-> statusCode]

(* The updates a socket can emit next *)
Updates(s) ==
    (IF ~sessions[s].opened
     THEN {Update(<<q>>, "none", NoCode) : q \in QrTokens}
          \cup {Update(null, "connecting", NoCode), Update(null, "open", NoCode)}
     ELSE {})
    \cup {Update(null, "close", c) : c \in RawCodes}

(* What the socket has emitted; it stops delivering events after 'close' *)
Emitted(sess, u) ==
    [sess EXCEPT
       !.early = @ \/ (sess.qrTimeout = "pending"
                       /\ (u.qr # null \/ u.connection = "open")),
       !.opened = (@ \/ u.connection = "open") /\ u.connection # "close",
       !.subscribed = u.connection # "close"]

(* clearTimeout(qrTimeout), line 131 *)
ClearTimeout(sess) ==
    IF sess.qrTimeout = "pending"
    THEN [sess EXCEPT !.qrTimeout = "done", !.remaining = 0, !.early = FALSE]
    ELSE sess

(* An update arrives: lines 127-131 up to the await when it carries a QR,   *)
(* lines 127-165 otherwise.                                                 *)
ConnectionUpdate(s, u) ==
    /\ sessions[s].subscribed
    /\ IF u.qr # null
       THEN /\ \A h \in pendingQr : h.sid # s
            /\ sessions' = [sessions EXCEPT ![s] = ClearTimeout(Emitted(@, u))]
            /\ pendingQr' = pendingQr \cup {[sid |-> s, update |-> u]}
            /\ lastEvent' = Event("qr", s, NoCode, <<>>, 0)
            /\ UNCHANGED <<connectionStatus, qrBase64, lastError, restartTimers,
                           lastClose>>
       ELSE /\ sessions' = [sessions EXCEPT ![s] = Emitted(@, u)]
            /\ Commit(OnConnection(Globals, u))
            /\ lastEvent' = Event(u.connection, s, u.statusCode,
                                  OnConnection(Globals, u).scheduled, 0)
            /\ lastClose' = Closes(u)
            /\ UNCHANGED pendingQr
    /\ UNCHANGED <<socket, folderExists, files, loading, listening, requests>>

(* QRCode.toDataURL resolves and the handler runs on: lines 133-165 *)
QrRendered(h) ==
    /\ h \in pendingQr
    /\ pendingQr' = pendingQr \ {h}
    /\ Commit(OnConnection(OnQr(Globals, h.update.qr[1]), h.update))
    /\ lastClose' = Closes(h.update)
    /\ lastEvent' = Event("rendered", h.sid, NoCode,
                          OnConnection(OnQr(Globals, h.update.qr[1]), h.update).scheduled, 0)
    /\ UNCHANGED <<socket, folderExists, files, sessions, loading, listening,
                   requests>>

(* creds.update: saveCreds writes creds.json, line 124 *)
CredsUpdate(s) ==
    /\ sessions[s].subscribed
    /\ "creds.json" \notin files
    /\ files' = files \cup {"creds.json"}
    /\ lastEvent' = Event("creds", s, NoCode, <<>>, 0)
    /\ UNCHANGED <<connectionStatus, qrBase64, lastError, socket, folderExists,
                   sessions, restartTimers, pendingQr, loading, listening,
                   requests, lastClose>>

----------------------------------------------------------------------------
(* POST /api/send-message, lines 176-196 *)

HTTP_OK == 200
HTTP_UNAUTHORIZED == 401
HTTP_UNAVAILABLE == 503
HTTP_ERROR == 500

(* line 184 *)
SocketReady(sock) == sock # 0

(* The request runs up to its response or to the await of line 190.         *)
(* authOk: the bearer token matches; toOk: the body has a string `to`.      *)
SendMessage(authOk, toOk) ==
    /\ Len(requests) < MaxRequests
    /\ IF ~authOk
       THEN /\ lastEvent' = Event("send", 0, HTTP_UNAUTHORIZED, <<>>, 0)
            /\ UNCHANGED requests
       ELSE IF ~SocketReady(socket)
       THEN /\ lastEvent' = Event("send", 0, HTTP_UNAVAILABLE, <<>>, 0)
            /\ UNCHANGED requests
       ELSE IF ~toOk
       THEN /\ lastEvent' = Event("sendBadBody", 0, HTTP_ERROR, <<>>, 0)
            /\ UNCHANGED requests
       ELSE /\ requests' = Append(requests, [socket |-> socket, sends |-> 1])
            /\ lastEvent' = Event("sending", socket, NoCode, <<>>, 1)
    /\ UNCHANGED <<connectionStatus, qrBase64, lastError, socket, folderExists,
                   files, sessions, restartTimers, pendingQr, loading, listening,
                   lastClose>>

AfterSend_RetryOnce(req, ok) ==
    IF ok \/ req.sends > 1
    THEN [done |-> TRUE, response |-> IF ok THEN HTTP_OK ELSE HTTP_ERROR,
          sends |-> req.sends]
    ELSE [done |-> FALSE, response |-> NoCode, sends |-> req.sends + 1]

(* lines 191-195: what follows the outcome of socket.sendMessage *)
AfterSend(req, ok) ==
    [done |-> TRUE, response |-> IF ok THEN HTTP_OK ELSE HTTP_ERROR,
     sends |-> req.sends]

(* socket.sendMessage settles *)
SendSettled(r, ok) ==
    /\ r \in 1..Len(requests)
    /\ LET out == AfterSend(requests[r], ok) IN
         IF out.done
         THEN /\ requests' = RemoveAt(requests, r)
              /\ lastEvent' = Event("sent", requests[r].socket, out.response,
                                    <<>>, out.sends)
         ELSE /\ requests' = [requests EXCEPT ![r].sends = out.sends]
              /\ lastEvent' = Event("sending", requests[r].socket, NoCode,
                                    <<>>, out.sends)
    /\ UNCHANGED <<connectionStatus, qrBase64, lastError, socket, folderExists,
                   files, sessions, restartTimers, pendingQr, loading, listening,
                   lastClose>>

(* GET /api/status, lines 199-205 *)
StatusSnapshot ==
    [status |-> connectionStatus, hasQR |-> qrBase64 # null, error |-> lastError]

----------------------------------------------------------------------------
(* Time *)

TimerDue ==
    \/ \E i \in 1..Len(restartTimers) : restartTimers[i] = 0
    \/ \E s \in 1..Len(sessions) :
          sessions[s].qrTimeout = "pending" /\ sessions[s].remaining = 0

TimerPending ==
    \/ restartTimers # <<>>
    \/ \E s \in 1..Len(sessions) : sessions[s].qrTimeout = "pending"

(* RETRY_MS pass.  Due timers fire first; reading the session folder and    *)
(* rendering a QR image take less than that.                                *)
Tick ==
    /\ TimerPending
    /\ ~TimerDue
    /\ loading = 0
    /\ pendingQr = {}
    /\ restartTimers' = [i \in 1..Len(restartTimers) |-> restartTimers[i] - RETRY_MS]
    /\ sessions' = [s \in 1..Len(sessions) |->
                      IF sessions[s].qrTimeout = "pending"
                      THEN [sessions[s] EXCEPT !.remaining = @ - RETRY_MS]
                      ELSE sessions[s]]
    /\ lastEvent' = Event("tick", 0, NoCode, <<>>, 0)
    /\ UNCHANGED <<connectionStatus, qrBase64, lastError, socket, folderExists,
                   files, pendingQr, loading, listening, requests, lastClose>>

----------------------------------------------------------------------------

Next ==
    \/ Listen
    \/ \E i \in 1..Len(restartTimers) : RestartFire(i)
    \/ \E ok \in BOOLEAN : StartBridgeResume(ok)
    \/ \E s \in 1..Len(sessions) : QrTimeoutFire(s)
    \/ \E s \in 1..Len(sessions) : \E u \in Updates(s) : ConnectionUpdate(s, u)
    \/ \E h \in pendingQr : QrRendered(h)
    \/ \E s \in 1..Len(sessions) : CredsUpdate(s)
    \/ \E authOk \in BOOLEAN, toOk \in BOOLEAN : SendMessage(authOk, toOk)
    \/ \E r \in 1..Len(requests), ok \in BOOLEAN : SendSettled(r, ok)
    \/ Tick

Spec == Init /\ [][Next]_vars

(* Node runs a timer callback once its delay has passed and resumes an      *)
(* async function once the promise it awaits has settled; time passes.      *)
Fairness ==
    /\ WF_vars(Tick)
    /\ WF_vars(\E i \in 1..Len(restartTimers) : RestartFire(i))
    /\ WF_vars(\E s \in 1..Len(sessions) : QrTimeoutFire(s))
    /\ WF_vars(\E h \in pendingQr : QrRendered(h))
    /\ WF_vars(\E ok \in BOOLEAN : StartBridgeResume(ok))

FairSpec == Spec /\ Fairness

----------------------------------------------------------------------------
(* Properties *)

Subscribed == {s \in 1..Len(sessions) : sessions[s].subscribed}

SendEvents == {"send", "sendBadBody", "sending", "sent"}

(* C1: once a close with the logged-out code has been processed, that step *)
(* has scheduled no restart, no restart timer is pending, no startBridge   *)
(* call is in progress and no step is a start attempt.                     *)
C1_LoggedOutNeverRestarts ==
    lastClose = loggedOut =>
        /\ restartTimers = <<>>
        /\ loading = 0
        /\ lastEvent.type \notin {"start", "opened", "startfail"}
        /\ lastEvent.type = "close" => lastEvent.scheduled = <<>>

(* Time has passed after a logged-out close: the 10 s timer of the closed  *)
(* socket has fired and nothing restarted.                                 *)
C1_Witness ==
    /\ lastClose = loggedOut
    /\ lastEvent.type = "qrTimeout"
    /\ connectionStatus = StoppedStatus(loggedOut)

C3_FreshPairingAfter405 ==
    (lastEvent.type = "opened" /\ lastEvent.code = RATE_LIMITED) =>
        lastEvent.n = 0

(* C4: a close with a code other than logged-out and 405, an absent code   *)
(* included, schedules exactly one restart, 5 s later.                     *)
C4_OtherCodesRetryAfter5s ==
    (lastEvent.type = "close" /\ lastEvent.code \notin {loggedOut, RATE_LIMITED}) =>
        /\ lastEvent.scheduled = <<RETRY_MS>>
        /\ restartTimers = <<RETRY_MS>>

C4_Witness ==
    /\ lastEvent.type = "close"
    /\ lastEvent.code = NoCode
    /\ lastEvent.scheduled = <<RETRY_MS>>
    /\ connectionStatus = StoppedStatus(NoCode)

(* C5: the status snapshot never shows a pairing challenge together with   *)
(* CONNECTED.                                                              *)
C5_NoQrWhileConnected ==
    ~(StatusSnapshot.status = STATUS_CONNECTED /\ StatusSnapshot.hasQR)

(* A QR handler was suspended on the image while 'open' was processed, and *)
(* has now run on.                                                         *)
C5_Witness ==
    /\ lastEvent.type = "rendered"
    /\ sessions[lastEvent.sid].opened
    /\ StatusSnapshot.hasQR

(* C6: an authorized, well-formed send request made while the status is    *)
(* not CONNECTED is answered with a failure and not handed to the socket. *)
C6_SendRefusedUnlessConnected ==
    (/\ lastEvent.type \in {"send", "sending"}
     /\ lastEvent.code # HTTP_UNAUTHORIZED
     /\ connectionStatus # STATUS_CONNECTED) =>
        /\ lastEvent.type = "send"
        /\ lastEvent.code = HTTP_UNAVAILABLE
        /\ lastEvent.n = 0

(* C7: a step of a send request leaves the status snapshot, the restart    *)
(* timers and the start attempts alone, touches no other request, and a    *)
(* request calls socket.sendMessage at most once.                          *)
C7_SendFrame ==
    [][lastEvent'.type \in SendEvents =>
          /\ StatusSnapshot' = StatusSnapshot
          /\ restartTimers' = restartTimers
          /\ loading' = loading
          /\ sessions' = sessions
          /\ lastEvent'.scheduled = <<>>
          /\ lastEvent'.n <= 1
          /\ \A r \in 1..Len(requests') : requests'[r].sends = 1
          /\ Len(requests') >= Len(requests) - 1]_vars

(* The socket's send failed after the connection had closed: the caller got *)
(* the failure, the status still names the close.                           *)
C7_Witness ==
    /\ lastEvent.type = "sent"
    /\ lastEvent.code = HTTP_ERROR
    /\ lastEvent.n = 1
    /\ lastError = ClosedError(NoCode)

(* C8: sockets delivering events, pending restart timers and startBridge   *)
(* calls in progress are together at most one.                             *)
C8_OneSessionAtATime ==
    Cardinality(Subscribed) + Len(restartTimers) + loading <= 1

(* A restarted socket is live and its predecessor is closed. *)
C8_Witness ==
    /\ Len(sessions) >= 2
    /\ Subscribed = {2}
    /\ lastEvent.type = "open"

(* C9: a pairing challenge is present only in READY TO SCAN.               *)
C9_QrOnlyWhileReadyToScan ==
    qrBase64 # null => connectionStatus = STATUS_READY

(* C10: when the 10 s timer of a socket fires and the socket has emitted   *)
(* no QR, no 'open' and no close, the QR-timeout error is recorded and the *)
(* status is still Starting.                                               *)
C10_QuietTimeoutIsFlagged ==
    (lastEvent.type = "qrTimeout" /\ lastEvent.n = 0) =>
        /\ lastError = QR_TIMEOUT_ERROR
        /\ connectionStatus = STATUS_STARTING

(* C11: the 10 s timer of a socket that emitted a QR or 'open' before the  *)
(* timer's deadline does not record the QR-timeout error when it fires.    *)
C11_EarlySessionTimerIsSilent ==
    [][(lastEvent'.type = "qrTimeout" /\ lastEvent'.n = 2) =>
          lastError' = lastError]_vars

(* C12: lastError goes from non-empty to empty only in a step that         *)
(* completes the handling of a QR or handles 'open', and each such step    *)
(* leaves it empty.                                                        *)
C12_ErrorClearedOnlyByQrOrOpen ==
    [][/\ (lastError # null /\ lastError' = null) =>
             lastEvent'.type \in {"rendered", "open"}
       /\ lastEvent'.type \in {"rendered", "open"} => lastError' = null]_vars

(* A QR handler has run on after its socket's close: the close error was  *)
(* standing until that step cleared it.                                    *)
C12_Witness ==
    /\ lastEvent.type = "rendered"
    /\ lastClose \in RawCodes
    /\ lastError = null

(* C13: when a start attempt fails, in its synchronous part or after its   *)
(* awaits, the status is Startup Error, lastError is the failure's message, *)
(* that step schedules nothing, and no restart timer is pending and no     *)
(* startBridge call is left in progress.                                   *)
C13_StartupFailureIsCaught ==
    lastEvent.type = "startfail" =>
        /\ connectionStatus = STATUS_STARTUP_ERROR
        /\ lastError \in {FS_ERROR, OPEN_ERROR}
        /\ lastEvent.scheduled = <<>>
        /\ restartTimers = <<>>
        /\ loading = 0

(* A restart, not only the first start, has failed after its awaits. *)
C13_Witness ==
    /\ lastEvent.type = "startfail"
    /\ lastEvent.n = 0
    /\ Len(sessions) >= 1
    /\ lastError = OPEN_ERROR

IsStopped(status) == status # null /\ status[1] = "Stopped (Reason: "

(* C14: once the status is Stopped, it changes, and the recorded close     *)
(* error changes, only in the step in which the scheduled restart fires.   *)
C14_StoppedLeftOnlyByRestart ==
    [][(IsStopped(connectionStatus) /\ lastEvent'.type \notin {"start", "startfail"}) =>
          /\ connectionStatus' = connectionStatus
          /\ lastError' = lastError]_vars

(* startBridge has been entered: line 58 has set the status to Starting,   *)
(* which stands unless an fs call of the same synchronous run threw.       *)
StartBegun ==
    \/ lastEvent.type = "start" /\ connectionStatus = STATUS_STARTING
    \/ lastEvent.type = "startfail" /\ lastEvent.n = 1

(* C15: with timers firing and time passing, every close with a code other *)
(* than logged-out is followed by a new start attempt (for the sockets     *)
(* below the session bound of the model).                                  *)
C15_CloseLeadsToRestart ==
    (/\ lastEvent.type = "close"
     /\ lastEvent.code # loggedOut
     /\ Len(sessions) < MaxSessions) ~> StartBegun

(* The restart after a 405 close has begun, 60 s later. *)
C15_Witness ==
    /\ lastEvent.type = "start"
    /\ connectionStatus = STATUS_STARTING
    /\ lastError = ClosedError(RATE_LIMITED)
    /\ Len(sessions) = 1

(* C16: the firing of a 10 s timer changes neither the status nor the      *)
(* pairing challenge, schedules no restart, starts nothing, creates no     *)
(* socket and leaves the session folder alone.                             *)
C16_QrTimeoutFrame ==
    [][lastEvent'.type = "qrTimeout" =>
          /\ connectionStatus' = connectionStatus
          /\ qrBase64' = qrBase64
          /\ restartTimers' = restartTimers
          /\ lastEvent'.scheduled = <<>>
          /\ loading' = loading
          /\ Len(sessions') = Len(sessions)
          /\ socket' = socket
          /\ files' = files]_vars

(* The timer has fired and recorded its note; the status is still Starting *)
C16_Witness ==
    /\ lastEvent.type = "qrTimeout"
    /\ lastError = QR_TIMEOUT_ERROR
    /\ connectionStatus = STATUS_STARTING
    /\ restartTimers = <<>>

(* C17: a start attempt deletes the persisted credential files only if the *)
(* most recently processed close carried raw code exactly 405; after any   *)
(* other code, 1405 and 4050 included, the restart keeps them.             *)
C17_OnlyExact405ClearsCredentials ==
    [][(lastEvent'.type = "start" /\ files # {} /\ files' = {}) =>
          lastClose = RATE_LIMITED]_vars

(* C18: while the status is Stopped with reason r, lastError names the     *)
(* same close code r; no timer or event changes one without the other.     *)
C18_StoppedNamesItsCode ==
    IsStopped(connectionStatus) =>
        \E r \in RawCodes :
            /\ connectionStatus = StoppedStatus(r)
            /\ lastError = ClosedError(r)
            /\ lastError # null

(* A 10 s timer has fired while the status was Stopped and left the pair  *)
C18_Witness ==
    /\ IsStopped(connectionStatus)
    /\ lastEvent.type = "qrTimeout"
    /\ qrBase64 = null
    /\ lastError = ClosedError(lastClose)

(* C19: while the status is Connected, lastError is empty; no timer, left- *)
(* over timers of earlier sessions included, records an error meanwhile.   *)
C19_ConnectedHasNoError ==
    connectionStatus = STATUS_CONNECTED => lastError = null

(* A timer left over from an earlier session has fired while Connected    *)
C19_Witness ==
    /\ connectionStatus = STATUS_CONNECTED
    /\ lastEvent.type = "qrTimeout"
    /\ lastEvent.sid < Len(sessions)
    /\ lastError = null

====
